---------------------------- MODULE Spec2Model ----------------------------
(***************************************************************************)
(* parsehttp: per-flow reassembly of TCP payload into HTTP/1.x request /   *)
(* response transactions (framed by Content-Length, or Server-Sent         *)
(* Events), as implemented in src/src/main.rs.                             *)
(*                                                                         *)
(* A byte is a one-character string; a byte buffer (Vec<u8>, &[u8]) and a  *)
(* text (String) are sequences of them.  Option<T> is a sequence of at     *)
(* most one T: <<>> is None, <<t>> is Some(t).                             *)
(***************************************************************************)
EXTENDS Integers, Sequences, FiniteSets, TLC

(***************************************************************************)
(* Bytes and character classes                                             *)
(***************************************************************************)
Upper ==
  <<"A","B","C","D","E","F","G","H","I","J","K","L","M","N","O","P","Q","R","S","T","U","V",
    "W","X","Y","Z">>
LowerCase ==
  <<"a","b","c","d","e","f","g","h","i","j","k","l","m","n","o","p","q","r","s","t","u","v",
    "w","x","y","z">>
Digits ==
  <<"0","1","2","3","4","5","6","7","8","9">>
TokenSym ==
  <<"!","#","$","%","&","'","*","+","-",".","^","_","|","~">>
OtherSym ==
  <<"(",")",",","/",":",";","<","=",">","?","@","[","]","{","}">>

Range(f) == {f[i] : i \in DOMAIN f}

\* the byte 0xFF, which is never part of a valid UTF-8 sequence
ByteFF == "xFF"
\* U+FFFD REPLACEMENT CHARACTER, what from_utf8_lossy puts for an invalid byte
ReplacementChar == "uFFFD"

IsDigit(c) == c \in Range(Digits)

\* the token characters of httparse (method and header-name bytes); the
\* backquote, also a token character, is left out of the alphabet
IsToken(c) == c \in (Range(Upper) \cup Range(LowerCase) \cup Range(Digits) \cup Range(TokenSym))

\* visible ASCII, 0x21..0x7E
IsVisible(c) == IsToken(c) \/ c \in Range(OtherSym)

\* bytes httparse accepts in a request target
IsUriChar(c) == IsVisible(c)

\* bytes httparse accepts in a header value or a reason phrase:
\* HTAB, SP, visible ASCII and obs-text (>= 0x80)
IsValueChar(c) == IsVisible(c) \/ c \in {" ", "\t", ByteFF}

\* char::is_whitespace on the characters a text of this model can hold
IsWhitespace(c) == c \in {" ", "\t", "\n", "\r", "\f"}

RECURSIVE IndexOf(_, _, _)
IndexOf(seq, c, i) ==
  IF i > Len(seq) THEN 0
  ELSE IF seq[i] = c THEN i
  ELSE IndexOf(seq, c, i + 1)

\* str::to_lowercase, per character
LowerChar(c) ==
  LET i == IndexOf(Upper, c, 1) IN IF i = 0 THEN c ELSE LowerCase[i]

ToLowercase(s) == [i \in 1..Len(s) |-> LowerChar(s[i])]

\* String::from_utf8_lossy on a buffer of ASCII bytes and 0xFF bytes
FromUtf8Lossy(b) ==
  [i \in 1..Len(b) |-> IF b[i] = ByteFF THEN ReplacementChar ELSE b[i]]

\* s[i..] starts with pat
StartsAt(s, pat, i) ==
  /\ i + Len(pat) - 1 <= Len(s)
  /\ \A j \in 1..Len(pat) : s[i + j - 1] = pat[j]

\* str::contains
Contains(s, pat) == \E i \in 1..(Len(s) + 1) : StartsAt(s, pat, i)

RECURSIVE TrimStartIdx(_, _)
TrimStartIdx(s, i) ==
  IF i <= Len(s) /\ IsWhitespace(s[i]) THEN TrimStartIdx(s, i + 1) ELSE i

RECURSIVE TrimEndIdx(_, _)
TrimEndIdx(s, j) ==
  IF j >= 1 /\ IsWhitespace(s[j]) THEN TrimEndIdx(s, j - 1) ELSE j

\* str::trim
Trim(s) ==
  LET i == TrimStartIdx(s, 1)
      j == TrimEndIdx(s, Len(s))
  IN  IF i > j THEN <<>> ELSE SubSeq(s, i, j)

\* str::split("\n\n"): the pieces between non-overlapping separators, left to
\* right; never empty (an empty text gives one empty piece)
RECURSIVE SplitFrom(_, _, _)
SplitFrom(s, start, i) ==
  IF i + 1 > Len(s) THEN <<SubSeq(s, start, Len(s))>>
  ELSE IF s[i] = "\n" /\ s[i + 1] = "\n"
       THEN <<SubSeq(s, start, i - 1)>> \o SplitFrom(s, i + 2, i + 2)
       ELSE SplitFrom(s, start, i + 1)

SplitBlankLine(s) == SplitFrom(s, 1, 1)

RECURSIVE DecimalValue(_, _, _)
DecimalValue(s, i, acc) ==
  IF i > Len(s) THEN acc
  ELSE DecimalValue(s, i + 1, acc * 10 + (IndexOf(Digits, s[i], 1) - 1))

\* str::parse::<usize>().unwrap_or(0): an optional '+', then one or more
\* ASCII digits and nothing else; anything else fails and gives 0.  (A value
\* beyond usize::MAX fails too; the inputs of this model stay far below.)
ParseUsizeOr0(s) ==
  LET d == IF Len(s) > 0 /\ s[1] = "+" THEN SubSeq(s, 2, Len(s)) ELSE s
  IN  IF Len(d) = 0 \/ \E i \in 1..Len(d) : ~IsDigit(d[i])
      THEN 0
      ELSE DecimalValue(d, 1, 0)

(***************************************************************************)
(* httparse: Request::parse and Response::parse.  A result is              *)
(* [st |-> "Complete", ...], [st |-> "Partial"] or [st |-> "Error"];       *)
(* positions are 1-based indexes of the next unread byte.                  *)
(***************************************************************************)
Partial == [st |-> "Partial"]
ParseError == [st |-> "Error"]
At(i) == [st |-> "Complete", pos |-> i]

\* the headers array of process_stream: [httparse::EMPTY_HEADER; 64]
MaxHeaders == 64

\* skip_empty_lines: leading CRLF / LF before the start line
RECURSIVE SkipEmptyLines(_, _)
SkipEmptyLines(b, i) ==
  IF i > Len(b) THEN Partial
  ELSE IF b[i] = "\r"
       THEN IF i + 1 > Len(b) THEN Partial
            ELSE IF b[i + 1] = "\n" THEN SkipEmptyLines(b, i + 2)
            ELSE ParseError
  ELSE IF b[i] = "\n" THEN SkipEmptyLines(b, i + 1)
  ELSE At(i)

\* newline!: CRLF or a bare LF
Newline(b, i) ==
  IF i > Len(b) THEN Partial
  ELSE IF b[i] = "\r"
       THEN IF i + 1 > Len(b) THEN Partial
            ELSE IF b[i + 1] = "\n" THEN At(i + 2)
            ELSE ParseError
  ELSE IF b[i] = "\n" THEN At(i + 1)
  ELSE ParseError

\* parse_token: one or more token bytes up to a space; pos is the space
RECURSIVE ParseToken(_, _, _)
ParseToken(b, start, i) ==
  IF i > Len(b) THEN Partial
  ELSE IF b[i] = " " /\ i > start THEN At(i)
  ELSE IF IsToken(b[i]) THEN ParseToken(b, start, i + 1)
  ELSE ParseError

\* parse_uri: one or more target bytes up to a space; pos is the space
RECURSIVE ParseUri(_, _, _)
ParseUri(b, start, i) ==
  IF i > Len(b) THEN Partial
  ELSE IF IsUriChar(b[i]) THEN ParseUri(b, start, i + 1)
  ELSE IF b[i] = " " /\ i > start THEN At(i)
  ELSE ParseError

HttpVersionPrefix == <<"H","T","T","P","/","1",".">>

\* parse_version: "HTTP/1.0" or "HTTP/1.1"; with fewer than 8 bytes left, the
\* bytes there are must be a prefix of "HTTP/1."
ParseVersion(b, i) ==
  LET n == Len(b) - i + 1 IN
  IF n >= 8
  THEN IF StartsAt(b, HttpVersionPrefix, i) /\ b[i + 7] \in {"0", "1"}
       THEN At(i + 8)
       ELSE ParseError
  ELSE IF \A j \in 1..n : j <= 7 /\ b[i + j - 1] = HttpVersionPrefix[j]
       THEN Partial
       ELSE ParseError

\* parse_code: three ASCII digits
ParseCode(b, i) ==
  IF \E j \in 0..2 : i + j <= Len(b) /\ ~IsDigit(b[i + j])
       /\ \A l \in 0..(j - 1) : IsDigit(b[i + l])
  THEN ParseError
  ELSE IF i + 2 > Len(b) THEN Partial
  ELSE At(i + 3)

\* parse_reason: the reason phrase up to its line end; pos is after the line
\* end, last the last byte of the phrase
RECURSIVE ParseReason(_, _)
ParseReason(b, i) ==
  IF i > Len(b) THEN Partial
  ELSE IF b[i] = "\r"
       THEN IF i + 1 > Len(b) THEN Partial
            ELSE IF b[i + 1] = "\n" THEN [st |-> "Complete", pos |-> i + 2, last |-> i - 1]
            ELSE ParseError
  ELSE IF b[i] = "\n" THEN [st |-> "Complete", pos |-> i + 1, last |-> i - 1]
  ELSE IF IsValueChar(b[i]) THEN ParseReason(b, i + 1)
  ELSE ParseError

\* a header name: token bytes up to the colon; pos is the colon
RECURSIVE ParseHeaderName(_, _)
ParseHeaderName(b, i) ==
  IF i > Len(b) THEN Partial
  ELSE IF b[i] = ":" THEN At(i)
  ELSE IF IsToken(b[i]) THEN ParseHeaderName(b, i + 1)
  ELSE ParseError

\* the spaces and tabs between the colon and the value
RECURSIVE SkipValueSpace(_, _)
SkipValueSpace(b, i) ==
  IF i <= Len(b) /\ b[i] \in {" ", "\t"} THEN SkipValueSpace(b, i + 1) ELSE i

\* trailing spaces and tabs are not part of the value
RECURSIVE ValueEnd(_, _, _)
ValueEnd(b, from, j) ==
  IF j >= from /\ b[j] \in {" ", "\t"} THEN ValueEnd(b, from, j - 1) ELSE j

\* parse_headers_iter: header lines up to the empty line; amt is the number of
\* bytes through the empty line
RECURSIVE ParseHeaders(_, _, _)
ParseHeaders(b, i, hs) ==
  IF i > Len(b) THEN Partial
  ELSE IF b[i] \in {"\r", "\n"}
       THEN LET nl == Newline(b, i) IN
            IF nl.st = "Complete"
            THEN [st |-> "Complete", amt |-> nl.pos - 1, headers |-> hs]
            ELSE nl
  ELSE IF ~IsToken(b[i]) THEN ParseError
  ELSE IF Len(hs) >= MaxHeaders THEN ParseError
  ELSE LET nm == ParseHeaderName(b, i + 1) IN
       IF nm.st # "Complete" THEN nm
       ELSE LET v  == SkipValueSpace(b, nm.pos + 1)
                r  == ParseReason(b, v)
            IN  IF r.st # "Complete" THEN r
                ELSE ParseHeaders(b, r.pos,
                       Append(hs, [name  |-> SubSeq(b, i, nm.pos - 1),
                                   value |-> SubSeq(b, v, ValueEnd(b, v, r.last))]))

\* httparse::Request::parse
RequestParse(b) ==
  LET s == SkipEmptyLines(b, 1) IN
  IF s.st # "Complete" THEN s
  ELSE LET m == ParseToken(b, s.pos, s.pos) IN
  IF m.st # "Complete" THEN m
  ELSE LET u == ParseUri(b, m.pos + 1, m.pos + 1) IN
  IF u.st # "Complete" THEN u
  ELSE LET v == ParseVersion(b, u.pos + 1) IN
  IF v.st # "Complete" THEN v
  ELSE LET nl == Newline(b, v.pos) IN
  IF nl.st # "Complete" THEN nl
  ELSE LET h == ParseHeaders(b, nl.pos, <<>>) IN
  IF h.st # "Complete" THEN h
  ELSE [st |-> "Complete", amt |-> h.amt,
        method |-> SubSeq(b, s.pos, m.pos - 1),
        path |-> SubSeq(b, m.pos + 1, u.pos - 1),
        headers |-> h.headers]

\* httparse::Response::parse
ResponseParse(b) ==
  LET s == SkipEmptyLines(b, 1) IN
  IF s.st # "Complete" THEN s
  ELSE LET v == ParseVersion(b, s.pos) IN
  IF v.st # "Complete" THEN v
  ELSE IF v.pos > Len(b) THEN Partial
  ELSE IF b[v.pos] # " " THEN ParseError
  ELSE LET c == ParseCode(b, v.pos + 1) IN
  IF c.st # "Complete" THEN c
  ELSE IF c.pos > Len(b) THEN Partial
  ELSE LET r == IF b[c.pos] = " " THEN ParseReason(b, c.pos + 1)
                ELSE IF b[c.pos] \in {"\r", "\n"}
                     THEN LET nl == Newline(b, c.pos) IN
                          IF nl.st = "Complete"
                          THEN [st |-> "Complete", pos |-> nl.pos, last |-> c.pos]
                          ELSE nl
                ELSE ParseError
       IN
  IF r.st # "Complete" THEN r
  ELSE LET h == ParseHeaders(b, r.pos, <<>>) IN
  IF h.st # "Complete" THEN h
  ELSE [st |-> "Complete", amt |-> h.amt,
        code |-> SubSeq(b, v.pos + 1, v.pos + 3),
        reason |-> IF b[c.pos] = " " THEN SubSeq(b, c.pos + 1, r.last) ELSE <<>>,
        headers |-> h.headers]

(***************************************************************************)
(* process_stream: one iteration of its loop per branch.  A branch gives   *)
(* [stream, consumed, printed]: the buffer before the drain of lines       *)
(* 334-338, the byte count to drain, and what output_transaction printed.  *)
(***************************************************************************)
ContentLengthName ==
  <<"c","o","n","t","e","n","t","-","l","e","n","g","t","h">>
ContentTypeName ==
  <<"c","o","n","t","e","n","t","-","t","y","p","e">>
TextEventStream ==
  <<"t","e","x","t","/","e","v","e","n","t","-","s","t","r","e","a","m">>

\* the escape sequences and glyphs of the two header banners, each one piece
RequestBanner == "<1;32m>REQUEST: "
ResponseBanner == "<1;34m>RESPONSE: "
ResetNewline == "<0m>\n"

RECURSIVE FormatDigits(_)
FormatDigits(n) ==
  IF n < 10 THEN <<Digits[n + 1]>>
  ELSE Append(FormatDigits(n \div 10), Digits[(n % 10) + 1])

\* format!("  {}: {}\n", h.name, val)
HeaderLine(h) ==
  <<" ", " ">> \o h.name \o <<":", " ">> \o FromUtf8Lossy(h.value) \o <<"\n">>

\* the header loop of lines 232-239: content_len is overwritten by every
\* content-length header met, h_str grows by one line per header
RECURSIVE ScanRequestHeaders(_, _, _, _)
ScanRequestHeaders(hs, i, content_len, h_str) ==
  IF i > Len(hs) THEN [content_len |-> content_len, h_str |-> h_str]
  ELSE LET name == ToLowercase(hs[i].name)
           val  == FromUtf8Lossy(hs[i].value)
       IN  ScanRequestHeaders(hs, i + 1,
             IF name = ContentLengthName THEN ParseUsizeOr0(val) ELSE content_len,
             h_str \o HeaderLine(hs[i]))

\* the header loop of lines 279-289
RECURSIVE ScanResponseHeaders(_, _, _, _, _)
ScanResponseHeaders(hs, i, is_sse, clen, h_str) ==
  IF i > Len(hs) THEN [is_sse |-> is_sse, clen |-> clen, h_str |-> h_str]
  ELSE LET name == ToLowercase(hs[i].name)
           val  == FromUtf8Lossy(hs[i].value)
       IN  ScanResponseHeaders(hs, i + 1,
             is_sse \/ (name = ContentTypeName /\ Contains(val, TextEventStream)),
             IF name = ContentLengthName THEN ParseUsizeOr0(val) ELSE clen,
             h_str \o HeaderLine(hs[i]))

Min(a, b) == IF a < b THEN a ELSE b

\* Vec::drain(..n)
Drain(data, n) == SubSeq(data, n + 1, Len(data))

\* output_transaction: what it prints (nothing, or one block) and the
\* transaction after it
OutputTransaction(tx) ==
  IF tx.is_sse
  THEN [tx |-> tx,
        printed |-> <<[kind |-> "sse", count |-> Len(tx.res_body_events),
                       req_header |-> tx.req_header, req_body |-> tx.req_body,
                       res_header |-> tx.res_header, res_body |-> <<>>,
                       events |-> tx.res_body_events]>>]
  ELSE IF ~tx.req_printed
  THEN [tx |-> [tx EXCEPT !.req_printed = TRUE],
        printed |-> <<[kind |-> "transaction", count |-> 0,
                       req_header |-> tx.req_header, req_body |-> tx.req_body,
                       res_header |-> tx.res_header, res_body |-> tx.res_body_raw,
                       events |-> <<>>]>>]
  ELSE [tx |-> tx, printed |-> <<>>]

NoProgress(stream) == [stream |-> stream, consumed |-> 0, printed |-> <<>>]

\* a variant of ParseRequestStep that drains the whole buffer on a parsed
\* request instead of the header bytes
ParseRequestStepDrainsAll(stream) ==
  LET req == RequestParse(stream.data) IN
  IF req.st # "Complete" THEN NoProgress(stream)
  ELSE LET sc == ScanRequestHeaders(req.headers, 1, 0, <<>>)
           tx == [req_header |-> <<RequestBanner>> \o req.method \o <<" ">>
                                   \o req.path \o <<ResetNewline>> \o sc.h_str,
                  req_body |-> <<>>,
                  expected_req_len |-> sc.content_len,
                  res_header |-> <<>>,
                  res_body_raw |-> <<>>,
                  res_body_events |-> <<>>,
                  expected_res_len |-> 0,
                  is_sse |-> FALSE,
                  req_printed |-> FALSE,
                  state |-> IF sc.content_len > 0 THEN "RequestBody"
                            ELSE "ResponseHeader"]
       IN  [stream |-> [stream EXCEPT !.current_tx = <<tx>>],
            consumed |-> Len(stream.data), printed |-> <<>>]

\* a variant of ParseRequestStep that drops the first byte of a buffer the
\* parser rejects, to look for a request further on
ParseRequestStepSkipsBadByte(stream) ==
  LET req == RequestParse(stream.data) IN
  IF req.st = "Error" THEN [stream |-> stream, consumed |-> 1, printed |-> <<>>]
  ELSE IF req.st # "Complete" THEN NoProgress(stream)
  ELSE LET sc == ScanRequestHeaders(req.headers, 1, 0, <<>>)
           tx == [req_header |-> <<RequestBanner>> \o req.method \o <<" ">>
                                   \o req.path \o <<ResetNewline>> \o sc.h_str,
                  req_body |-> <<>>,
                  expected_req_len |-> sc.content_len,
                  res_header |-> <<>>,
                  res_body_raw |-> <<>>,
                  res_body_events |-> <<>>,
                  expected_res_len |-> 0,
                  is_sse |-> FALSE,
                  req_printed |-> FALSE,
                  state |-> IF sc.content_len > 0 THEN "RequestBody"
                            ELSE "ResponseHeader"]
       IN  [stream |-> [stream EXCEPT !.current_tx = <<tx>>],
            consumed |-> req.amt, printed |-> <<>>]

\* lines 227-262: no current transaction
ParseRequestStep(stream) ==
  LET req == RequestParse(stream.data) IN
  IF req.st # "Complete" THEN NoProgress(stream)
  ELSE LET sc == ScanRequestHeaders(req.headers, 1, 0, <<>>)
           tx == [req_header |-> <<RequestBanner>> \o req.method \o <<" ">>
                                   \o req.path \o <<ResetNewline>> \o sc.h_str,
                  req_body |-> <<>>,
                  expected_req_len |-> sc.content_len,
                  res_header |-> <<>>,
                  res_body_raw |-> <<>>,
                  res_body_events |-> <<>>,
                  expected_res_len |-> 0,
                  is_sse |-> FALSE,
                  req_printed |-> FALSE,
                  state |-> IF sc.content_len > 0 THEN "RequestBody"
                            ELSE "ResponseHeader"]
       IN  [stream |-> [stream EXCEPT !.current_tx = <<tx>>],
            consumed |-> req.amt, printed |-> <<>>]

\* a variant of RequestBodyStep that takes all the buffered bytes, without the
\* min of line 267
RequestBodyStepNoMin(stream) ==
  LET tx   == stream.current_tx[1]
      take == Len(stream.data)
      body == tx.req_body \o SubSeq(stream.data, 1, take)
      tx2  == [tx EXCEPT !.req_body = body,
                         !.state = IF Len(body) >= tx.expected_req_len
                                   THEN "ResponseHeader" ELSE @]
  IN  [stream |-> [stream EXCEPT !.current_tx = <<tx2>>],
       consumed |-> take, printed |-> <<>>]

\* a variant of RequestBodyStep that goes on to ResponseBody when the body is
\* complete
RequestBodyStepSkipsHeader(stream) ==
  LET tx   == stream.current_tx[1]
      take == Min(tx.expected_req_len - Len(tx.req_body), Len(stream.data))
      body == tx.req_body \o SubSeq(stream.data, 1, take)
      tx2  == [tx EXCEPT !.req_body = body,
                         !.state = IF Len(body) >= tx.expected_req_len
                                   THEN "ResponseBody" ELSE @]
  IN  [stream |-> [stream EXCEPT !.current_tx = <<tx2>>],
       consumed |-> take, printed |-> <<>>]

\* lines 265-273
RequestBodyStep(stream) ==
  LET tx   == stream.current_tx[1]
      take == Min(tx.expected_req_len - Len(tx.req_body), Len(stream.data))
      body == tx.req_body \o SubSeq(stream.data, 1, take)
      tx2  == [tx EXCEPT !.req_body = body,
                         !.state = IF Len(body) >= tx.expected_req_len
                                   THEN "ResponseHeader" ELSE @]
  IN  [stream |-> [stream EXCEPT !.current_tx = <<tx2>>],
       consumed |-> take, printed |-> <<>>]

\* a variant of ResponseHeaderStep that prints and clears every response that
\* is not an event stream as soon as its header is parsed
ResponseHeaderStepEmitsEarly(stream) ==
  LET tx  == stream.current_tx[1]
      res == ResponseParse(stream.data)
  IN
  IF res.st # "Complete" THEN NoProgress(stream)
  ELSE LET sc  == ScanResponseHeaders(res.headers, 1, tx.is_sse, 0, <<>>)
           tx2 == [tx EXCEPT
                     !.is_sse = sc.is_sse,
                     !.res_header = <<ResponseBanner>>
                                      \o FormatDigits(DecimalValue(res.code, 1, 0))
                                      \o <<" ">> \o res.reason \o <<ResetNewline>>
                                      \o sc.h_str,
                     !.expected_res_len = sc.clen,
                     !.state = "ResponseBody"]
       IN  IF ~tx2.is_sse
           THEN [stream |-> [stream EXCEPT !.current_tx = <<>>],
                 consumed |-> res.amt,
                 printed |-> OutputTransaction(tx2).printed]
           ELSE [stream |-> [stream EXCEPT !.current_tx = <<tx2>>],
                 consumed |-> res.amt, printed |-> <<>>]

\* lines 274-304
ResponseHeaderStep(stream) ==
  LET tx  == stream.current_tx[1]
      res == ResponseParse(stream.data)
  IN
  IF res.st # "Complete" THEN NoProgress(stream)
  ELSE LET sc  == ScanResponseHeaders(res.headers, 1, tx.is_sse, 0, <<>>)
           tx2 == [tx EXCEPT
                     !.is_sse = sc.is_sse,
                     !.res_header = <<ResponseBanner>>
                                      \o FormatDigits(DecimalValue(res.code, 1, 0))
                                      \o <<" ">> \o res.reason \o <<ResetNewline>>
                                      \o sc.h_str,
                     !.expected_res_len = sc.clen,
                     !.state = "ResponseBody"]
       IN  IF ~tx2.is_sse /\ tx2.expected_res_len = 0
           THEN [stream |-> [stream EXCEPT !.current_tx = <<>>],
                 consumed |-> res.amt,
                 printed |-> OutputTransaction(tx2).printed]
           ELSE [stream |-> [stream EXCEPT !.current_tx = <<tx2>>],
                 consumed |-> res.amt, printed |-> <<>>]

\* the trimmed non-empty pieces of a split, in order (lines 309-314)
RECURSIVE NewEvents(_, _)
NewEvents(pieces, i) ==
  IF i > Len(pieces) THEN <<>>
  ELSE (IF Trim(pieces[i]) # <<>> THEN <<Trim(pieces[i])>> ELSE <<>>)
         \o NewEvents(pieces, i + 1)

\* a variant of SseBodyStep that prints an update whether or not an event
\* was added
SseBodyStepAlwaysPrints(stream) ==
  LET tx   == stream.current_tx[1]
      body == FromUtf8Lossy(stream.data)
      evs  == NewEvents(SplitBlankLine(body), 1)
      tx2  == [tx EXCEPT !.res_body_events = @ \o evs]
      o    == OutputTransaction(tx2)
  IN  [stream |-> [stream EXCEPT !.current_tx = <<o.tx>>],
       consumed |-> Len(stream.data), printed |-> o.printed]

\* a variant of SseBodyStep that pushes each non-blank piece as it is,
\* without trimming it
SseBodyStepUntrimmed(stream) ==
  LET tx   == stream.current_tx[1]
      body == FromUtf8Lossy(stream.data)
      evs  == SelectSeq(SplitBlankLine(body), LAMBDA e : Trim(e) # <<>>)
      tx2  == [tx EXCEPT !.res_body_events = @ \o evs]
      o    == OutputTransaction(tx2)
  IN  IF evs # <<>>
      THEN [stream |-> [stream EXCEPT !.current_tx = <<o.tx>>],
            consumed |-> Len(stream.data), printed |-> o.printed]
      ELSE [stream |-> [stream EXCEPT !.current_tx = <<tx2>>],
            consumed |-> Len(stream.data), printed |-> <<>>]

\* lines 306-318: the body of an SSE response
SseBodyStep(stream) ==
  LET tx   == stream.current_tx[1]
      body == FromUtf8Lossy(stream.data)
      evs  == NewEvents(SplitBlankLine(body), 1)
      tx2  == [tx EXCEPT !.res_body_events = @ \o evs]
      o    == OutputTransaction(tx2)
  IN  IF evs # <<>>
      THEN [stream |-> [stream EXCEPT !.current_tx = <<o.tx>>],
            consumed |-> Len(stream.data), printed |-> o.printed]
      ELSE [stream |-> [stream EXCEPT !.current_tx = <<tx2>>],
            consumed |-> Len(stream.data), printed |-> <<>>]

\* a variant of FramedBodyStep that prints the complete transaction and
\* leaves it in current_tx
FramedBodyStepKeepsTx(stream) ==
  LET tx   == stream.current_tx[1]
      take == Min(tx.expected_res_len - Len(tx.res_body_raw), Len(stream.data))
      tx2  == [tx EXCEPT !.res_body_raw = @ \o SubSeq(stream.data, 1, take)]
      o    == OutputTransaction(tx2)
  IN  IF Len(tx2.res_body_raw) >= tx2.expected_res_len
      THEN [stream |-> [stream EXCEPT !.current_tx = <<o.tx>>],
            consumed |-> take, printed |-> o.printed]
      ELSE [stream |-> [stream EXCEPT !.current_tx = <<tx2>>],
            consumed |-> take, printed |-> <<>>]

\* a variant of FramedBodyStep that drains the whole buffer when the
\* transaction completes
FramedBodyStepDropsRest(stream) ==
  LET tx   == stream.current_tx[1]
      take == Min(tx.expected_res_len - Len(tx.res_body_raw), Len(stream.data))
      tx2  == [tx EXCEPT !.res_body_raw = @ \o SubSeq(stream.data, 1, take)]
  IN  IF Len(tx2.res_body_raw) >= tx2.expected_res_len
      THEN [stream |-> [stream EXCEPT !.current_tx = <<>>],
            consumed |-> Len(stream.data), printed |-> OutputTransaction(tx2).printed]
      ELSE [stream |-> [stream EXCEPT !.current_tx = <<tx2>>],
            consumed |-> take, printed |-> <<>>]

\* lines 319-330: the body of a framed response
FramedBodyStep(stream) ==
  LET tx   == stream.current_tx[1]
      take == Min(tx.expected_res_len - Len(tx.res_body_raw), Len(stream.data))
      tx2  == [tx EXCEPT !.res_body_raw = @ \o SubSeq(stream.data, 1, take)]
  IN  IF Len(tx2.res_body_raw) >= tx2.expected_res_len
      THEN [stream |-> [stream EXCEPT !.current_tx = <<>>],
            consumed |-> take, printed |-> OutputTransaction(tx2).printed]
      ELSE [stream |-> [stream EXCEPT !.current_tx = <<tx2>>],
            consumed |-> take, printed |-> <<>>]

\* a variant of Branch that reads a response body with a declared length as
\* framed, event stream or not
BranchLengthFirst(stream) ==
  IF stream.current_tx = <<>> THEN "ParseRequest"
  ELSE IF stream.current_tx[1].state = "RequestBody" THEN "RequestBody"
  ELSE IF stream.current_tx[1].state = "ResponseHeader" THEN "ResponseHeader"
  ELSE IF stream.current_tx[1].is_sse /\ stream.current_tx[1].expected_res_len = 0
       THEN "SseBody"
  ELSE "FramedBody"

\* which branch one iteration of the loop takes
Branch(stream) ==
  IF stream.current_tx = <<>> THEN "ParseRequest"
  ELSE IF stream.current_tx[1].state = "RequestBody" THEN "RequestBody"
  ELSE IF stream.current_tx[1].state = "ResponseHeader" THEN "ResponseHeader"
  ELSE IF stream.current_tx[1].is_sse THEN "SseBody"
  ELSE "FramedBody"

\* one iteration of the loop of process_stream, before the drain
Iteration(stream) ==
  CASE Branch(stream) = "ParseRequest"   -> ParseRequestStep(stream)
    [] Branch(stream) = "RequestBody"    -> RequestBodyStep(stream)
    [] Branch(stream) = "ResponseHeader" -> ResponseHeaderStep(stream)
    [] Branch(stream) = "SseBody"        -> SseBodyStep(stream)
    [] Branch(stream) = "FramedBody"     -> FramedBodyStep(stream)

\* process_stream: the loop run until an iteration consumes nothing;
\* [stream, printed] is the buffer it leaves and all it printed, in order
RECURSIVE ProcessStream(_)
ProcessStream(stream) ==
  LET it == Iteration(stream) IN
  IF it.consumed > 0
  THEN LET rest == ProcessStream([it.stream EXCEPT !.data = Drain(@, it.consumed)])
       IN  [stream |-> rest.stream, printed |-> it.printed \o rest.printed]
  ELSE [stream |-> it.stream, printed |-> it.printed]


(***************************************************************************)
(* FlowKey                                                                 *)
(***************************************************************************)
\* IpAddr is <<family, bits>>: the derived order of the enum puts every V4
\* address before every V6 address, then compares the address bits
AddrLess(a, b) == a[1] < b[1] \/ (a[1] = b[1] /\ a[2] < b[2])

\* (src, src_port) < (dst, dst_port), the tuple order of line 46
EndpointLess(a, pa, b, pb) == AddrLess(a, b) \/ (a = b /\ pa < pb)

\* a variant of FlowKey that keeps the packet's source first
FlowKeyDirected(src, src_port, dst, dst_port) ==
  [addr_a |-> src, port_a |-> src_port, addr_b |-> dst, port_b |-> dst_port]

\* a variant of FlowKey that orders the addresses and the ports separately
FlowKeySortsSeparately(src, src_port, dst, dst_port) ==
  [addr_a |-> IF AddrLess(dst, src) THEN dst ELSE src,
   port_a |-> IF dst_port < src_port THEN dst_port ELSE src_port,
   addr_b |-> IF AddrLess(dst, src) THEN src ELSE dst,
   port_b |-> IF dst_port < src_port THEN src_port ELSE dst_port]

\* FlowKey::new
FlowKey(src, src_port, dst, dst_port) ==
  IF EndpointLess(src, src_port, dst, dst_port)
  THEN [addr_a |-> src, port_a |-> src_port, addr_b |-> dst, port_b |-> dst_port]
  ELSE [addr_a |-> dst, port_a |-> dst_port, addr_b |-> src, port_b |-> src_port]

(***************************************************************************)
(* The captured traffic: two TCP connections.  What a connection carries   *)
(* is a sequence of segments [d, bytes, frag]: bytes sent in direction d   *)
(* ("fwd": client to server, "rev": server to client), captured as one     *)
(* packet, or (frag) as any number of packets.                             *)
(***************************************************************************)
HostA == <<4, 2>>
HostB == <<6, 1>>

\* a connection is its client endpoint and its server endpoint
Endpoints ==
  [c1 |-> [cli |-> <<HostA, 1>>, srv |-> <<HostB, 2>>],
   c2 |-> [cli |-> <<HostB, 1>>, srv |-> <<HostA, 2>>]]
Conns == {"c1", "c2"}

\* the key run_analysis computes for a packet of connection c sent in
\* direction d (line 142)
PacketKey(c, d) ==
  LET e == Endpoints[c] IN
  IF d = "fwd" THEN FlowKey(e.cli[1], e.cli[2], e.srv[1], e.srv[2])
  ELSE FlowKey(e.srv[1], e.srv[2], e.cli[1], e.cli[2])

\* the most transactions a keep-alive script carries
MaxTxns == 2
\* the largest payload of a fragment, short of "all that is left of the segment"
MaxChunk == 3

Fwd(b) == [d |-> "fwd", bytes |-> b, frag |-> TRUE]
Rev(b) == [d |-> "rev", bytes |-> b, frag |-> TRUE]
Whole(seg) == [seg EXCEPT !.frag = FALSE]

\* the bytes of a sequence of segments, in order
RECURSIVE Flatten(_)
Flatten(segs) ==
  IF segs = <<>> THEN <<>> ELSE Head(segs).bytes \o Flatten(Tail(segs))

\* the same bytes as one payload stream without packet boundaries of its own
\* (the direction of a merged segment is that of its first byte)
Merged(segs) == <<Fwd(Flatten(segs))>>

\* 'GET /'
GetPrefix ==
  <<"G","E","T"," ","/">>
\* 'POST /'
PostPrefix ==
  <<"P","O","S","T"," ","/">>
\* ' HTTP/1.1\r\n'
RequestLineEnd ==
  <<" ","H","T","T","P","/","1",".","1","\r","\n">>
\* 'Content-Length: 2\r\n'
ContentLength2 ==
  <<"C","o","n","t","e","n","t","-","L","e","n","g","t","h",":"," ","2","\r","\n">>
\* '\r\n'
Crlf ==
  <<"\r","\n">>
\* 'HTTP/1.1 200 OK\r\n'
StatusOk ==
  <<"H","T","T","P","/","1",".","1"," ","2","0","0"," ","O","K","\r","\n">>

\* the i-th request of a keep-alive script: a GET for odd i, a POST with a
\* two-byte body for even i; the path and the body carry the digit i
RequestOf(i) ==
  LET d == Digits[i + 1] IN
  IF i % 2 = 1
  THEN GetPrefix \o <<d>> \o RequestLineEnd \o Crlf
  ELSE PostPrefix \o <<d>> \o RequestLineEnd \o ContentLength2 \o Crlf \o <<d, "?">>

\* the i-th response: 200 OK with the two-byte body "<i>!"
ResponseOf(i) ==
  StatusOk \o ContentLength2 \o Crlf \o <<Digits[i + 1], "!">>

\* n transactions on one connection: req1, res1, ..., reqn, resn
RECURSIVE KeepAlive(_)
KeepAlive(n) ==
  IF n = 0 THEN <<>>
  ELSE KeepAlive(n - 1) \o <<Fwd(RequestOf(n)), Rev(ResponseOf(n))>>

\* 'GET /a HTTP/1.1\r\nHost: x\r\n\r\nHTTP/1.1 200 OK\r\nContent-Length: 2\r\n\r\nok'
Scenario1 ==
  <<"G","E","T"," ","/","a"," ","H","T","T","P","/","1",".","1","\r","\n","H","o","s","t",
    ":"," ","x","\r","\n","\r","\n","H","T","T","P","/","1",".","1"," ","2","0","0"," ","O",
    "K","\r","\n","C","o","n","t","e","n","t","-","L","e","n","g","t","h",":"," ","2","\r",
    "\n","\r","\n","o","k">>
\* 'POST /a HTTP/1.1\r\nContent-Length: 3\r\n\r\nfooHTTP/1.1 204 No Content\r\nContent-Length: 0\r\n\r\n'
Scenario2 ==
  <<"P","O","S","T"," ","/","a"," ","H","T","T","P","/","1",".","1","\r","\n","C","o","n",
    "t","e","n","t","-","L","e","n","g","t","h",":"," ","3","\r","\n","\r","\n","f","o","o",
    "H","T","T","P","/","1",".","1"," ","2","0","4"," ","N","o"," ","C","o","n","t","e","n",
    "t","\r","\n","C","o","n","t","e","n","t","-","L","e","n","g","t","h",":"," ","0","\r",
    "\n","\r","\n">>
\* 'G / HTTP/1.1\n\n'
TinyRequest ==
  <<"G"," ","/"," ","H","T","T","P","/","1",".","1","\n","\n">>
\* 'HTTP/1.1 200\n\n'
TinyResponse ==
  <<"H","T","T","P","/","1",".","1"," ","2","0","0","\n","\n">>
\* 'HTTP/1.1 200 OK\r\nContent-Type: text/event-stream\r\n\r\n'
SseResponse ==
  <<"H","T","T","P","/","1",".","1"," ","2","0","0"," ","O","K","\r","\n","C","o","n","t",
    "e","n","t","-","T","y","p","e",":"," ","t","e","x","t","/","e","v","e","n","t","-","s",
    "t","r","e","a","m","\r","\n","\r","\n">>
\* 'HTTP/1.1 200\nCONTENT-TYPE:text/event-stream\nContent-Length: 1\n\n'
SseResponseWithLength ==
  <<"H","T","T","P","/","1",".","1"," ","2","0","0","\n","C","O","N","T","E","N","T","-",
    "T","Y","P","E",":","t","e","x","t","/","e","v","e","n","t","-","s","t","r","e","a","m",
    "\n","C","o","n","t","e","n","t","-","L","e","n","g","t","h",":"," ","1","\n","\n">>
\* 'a\n\nb \n\n'
SseEvents ==
  <<"a","\n","\n","b"," ","\n","\n">>
\* 'G / XTTP/1.1\n\n'
BadRequest ==
  <<"G"," ","/"," ","X","T","T","P","/","1",".","1","\n","\n">>

\* boundary scenarios 1 and 2 of the specification: the whole exchange as one
\* payload stream
FramedScenarios == {<<Fwd(Scenario1)>>, <<Fwd(Scenario2)>>}

KeepAliveScenarios ==
  {KeepAlive(n) : n \in 1..MaxTxns} \cup {Merged(KeepAlive(n)) : n \in 1..MaxTxns}

\* an event stream; and an event stream that declares a Content-Length and
\* is followed by a second request of the client
SseScenarios ==
  { <<Fwd(TinyRequest), Rev(SseResponse), Rev(SseEvents \o <<ByteFF>>)>>,
    <<Fwd(TinyRequest \o SseResponseWithLength), Rev(<<"e", "\n">>), Whole(Fwd(TinyRequest))>> }

\* a request line httparse rejects, then a valid request
StuckScenarios == { <<Fwd(BadRequest \o TinyRequest)>> }

\* two requests sent before any response: req1, req2, res1, res2
Pipelined ==
  <<Fwd(RequestOf(1) \o RequestOf(2)), Rev(ResponseOf(1) \o ResponseOf(2))>>

PipelinedScenarios == {Pipelined}

\* 'P / HTTP/1.1\nContent-Length: 1\nContent-Length: 0\n\n'
DupLengthRequest ==
  <<"P"," ","/"," ","H","T","T","P","/","1",".","1","\n","C","o","n","t","e","n","t","-",
    "L","e","n","g","t","h",":"," ","1","\n","C","o","n","t","e","n","t","-","L","e","n",
    "g","t","h",":"," ","0","\n","\n">>
\* 'HTTP/1.1 200\nContent-Type: a\nContent-Type: text/event-stream\n\n'
DupTypeResponse ==
  <<"H","T","T","P","/","1",".","1"," ","2","0","0","\n","C","o","n","t","e","n","t","-",
    "T","y","p","e",":"," ","a","\n","C","o","n","t","e","n","t","-","T","y","p","e",":",
    " ","t","e","x","t","/","e","v","e","n","t","-","s","t","r","e","a","m","\n","\n">>

\* a request with two Content-Length headers answered by a response with two
\* Content-Type headers
DuplicateScenarios == {<<Fwd(DupLengthRequest), Rev(DupTypeResponse)>>}

\* 'HTTP/1.1 200\nContent-Length: -1\n\n'
BadLengthResponse ==
  <<"H","T","T","P","/","1",".","1"," ","2","0","0","\n","C","o","n","t","e","n","t","-",
    "L","e","n","g","t","h",":"," ","-","1","\n","\n">>

\* a response whose Content-Length does not parse as a usize
BadLengthScenarios == {<<Fwd(TinyRequest), Rev(BadLengthResponse)>>}

\* what the capture holds: one exchange on c1, or an exchange on c1 and
\* another on c2, their packets in any interleaving (the capture may end
\* before the response of c2)
Scenarios ==
  {[c1 |-> s, c2 |-> <<>>] :
     s \in FramedScenarios \cup KeepAliveScenarios \cup SseScenarios \cup StuckScenarios
            \cup PipelinedScenarios \cup DuplicateScenarios
            \cup BadLengthScenarios}
    \cup {[c1 |-> <<Fwd(TinyRequest), Rev(TinyResponse)>>,
           c2 |-> <<Fwd(RequestOf(1)), Whole(Rev(TinyResponse))>>]}

(***************************************************************************)
(* State                                                                   *)
(***************************************************************************)
VARIABLES
  streams,    \* the HashMap<FlowKey, StreamBuffer> of main
  pc,         \* "recv": run_analysis waits for a packet; "loop": inside
              \* process_stream; "done": the capture ended and main returned
  cur,        \* the key of the stream process_stream works on
  out,        \* what was printed so far: <<key, block>> in print order
  wire,       \* per connection, the segments not captured yet
  sent,       \* history: per connection, the bytes captured so far
  mark,       \* history: events of cur's transaction when the ingest began
  sseIngests, \* history: per key, the ingests that appended an event
  eaten,      \* history: per key, the bytes drained from data, in drain order
  iters,      \* history: iterations of the loop since process_stream was called
  len0,       \* history: data.len() when process_stream was called
  alone,      \* history: per connection, its buffer and its output in a run
              \* of its own, fed the connection's packets only
  probe       \* two endpoint pairs and their keys (used by SpecFlowKey only)

vars == <<streams, pc, cur, out, wire, sent, mark, sseIngests, eaten, iters, len0,
          alone, probe>>

NoStreams == [k \in {} |-> <<>>]

\* StreamBuffer { data: Vec::new(), current_tx: None }
NewStream == [data |-> <<>>, current_tx |-> <<>>]

Init ==
  /\ streams = NoStreams
  /\ pc = "recv"
  /\ cur = PacketKey("c1", "fwd")
  /\ out = <<>>
  /\ wire \in Scenarios
  /\ sent = [c \in Conns |-> <<>>]
  /\ mark = 0
  /\ sseIngests = NoStreams
  /\ eaten = NoStreams
  /\ iters = 0
  /\ len0 = 0
  /\ alone = [c \in Conns |-> [stream |-> NewStream, printed |-> <<>>]]
  /\ probe = <<>>

\* a variant of SkipPacket that lets every packet through
SkipPacketNever(payload) == FALSE

\* tcp.payload().is_empty(), line 139
SkipPacket(payload) == payload = <<>>

\* the number of events of a stream's transaction (0 without one)
EventCount(stream) ==
  IF stream.current_tx = <<>> THEN 0 ELSE Len(stream.current_tx[1].res_body_events)

\* a variant of Extend with one buffer for all the flows: the payload is
\* appended to every StreamBuffer of the table
ExtendAll(table, key, payload) ==
  LET t == IF key \in DOMAIN table THEN table ELSE (key :> NewStream) @@ table
  IN  [k \in DOMAIN t |-> [t[k] EXCEPT !.data = @ \o payload]]

\* a variant of Extend that replaces the buffered bytes by the payload
ExtendReplaces(table, key, payload) ==
  LET s == IF key \in DOMAIN table THEN table[key] ELSE NewStream
  IN  (key :> [s EXCEPT !.data = payload]) @@ table

\* streams.entry(key).or_insert(..) and data.extend_from_slice(payload),
\* lines 143-147
Extend(table, key, payload) ==
  LET s == IF key \in DOMAIN table THEN table[key] ELSE NewStream
  IN  (key :> [s EXCEPT !.data = @ \o payload]) @@ table

\* the payload sizes the next packet of c may have
ChunkSizes(c) ==
  IF wire[c] = <<>> THEN {}
  ELSE LET seg == Head(wire[c]) IN
       {n \in 0..Len(seg.bytes) :
          \/ n = 0
          \/ n = Len(seg.bytes)
          \/ seg.frag /\ n <= MaxChunk}

\* line 147 on a buffer of its own
IngestAlone(a, payload) == [a EXCEPT !.stream.data = @ \o payload]

\* one iteration of the loop of process_stream on a buffer of its own, with
\* its drain.  An iteration is a function of the StreamBuffer: on the buffer
\* the capture's run has, it gives the result it of that run; a run whose
\* buffer differs is left where it is
IterateAlone(a, stream, it) ==
  IF a.stream = stream
  THEN [stream |-> [it.stream EXCEPT !.data = Drain(@, it.consumed)],
        printed |-> a.printed \o it.printed]
  ELSE a

\* run_analysis, lines 128-148: the next packet of connection c, carrying
\* the next n bytes of its first segment, up to the call of process_stream
Ingest(c, n) ==
  /\ pc = "recv"
  /\ n \in ChunkSizes(c)
  /\ LET seg     == Head(wire[c])
         payload == SubSeq(seg.bytes, 1, n)
         key     == PacketKey(c, seg.d)
     IN  IF SkipPacket(payload)
         THEN UNCHANGED vars
         ELSE /\ streams' = Extend(streams, key, payload)
              /\ pc' = "loop"
              /\ cur' = key
              /\ wire' = [wire EXCEPT ![c] =
                            IF n = Len(seg.bytes) THEN Tail(@)
                            ELSE <<[seg EXCEPT !.bytes = Drain(@, n)]>> \o Tail(@)]
              /\ sent' = [sent EXCEPT ![c] = @ \o payload]
              /\ mark' = IF key \in DOMAIN streams THEN EventCount(streams[key]) ELSE 0
              /\ sseIngests' = IF key \in DOMAIN sseIngests THEN sseIngests
                               ELSE (key :> 0) @@ sseIngests
              /\ eaten' = IF key \in DOMAIN eaten THEN eaten
                          ELSE (key :> <<>>) @@ eaten
              /\ iters' = 0
              /\ len0' = Len(Extend(streams, key, payload)[key].data)
              /\ alone' = [alone EXCEPT ![c] = IngestAlone(@, payload)]
              /\ UNCHANGED <<out, probe>>

\* a variant of LoopIteration without the break of lines 336-338: the loop
\* goes on after an iteration that consumed nothing
LoopIterationNeverBreaks(branch, it) ==
  /\ pc = "loop"
  /\ Branch(streams[cur]) = branch
  /\ out' = out \o [i \in 1..Len(it.printed) |-> <<cur, it.printed[i]>>]
  /\ IF it.consumed > 0
     THEN /\ streams' = [streams EXCEPT ![cur] =
                           [it.stream EXCEPT !.data = Drain(@, it.consumed)]]
          /\ pc' = "loop"
          /\ UNCHANGED sseIngests
     ELSE /\ streams' = [streams EXCEPT ![cur] = it.stream]
          /\ pc' = "loop"
          /\ sseIngests' = [sseIngests EXCEPT ![cur] =
                              IF EventCount(it.stream) > mark THEN @ + 1 ELSE @]
  /\ eaten' = [eaten EXCEPT ![cur] = @ \o SubSeq(it.stream.data, 1, it.consumed)]
  /\ iters' = iters + 1
  /\ alone' = [c \in Conns |->
                IF PacketKey(c, "fwd") = cur
                THEN IterateAlone(alone[c], streams[cur], it) ELSE alone[c]]
  /\ UNCHANGED <<cur, wire, sent, mark, len0, probe>>

\* one iteration of the loop of process_stream on streams[cur], taking the
\* given branch with result it: the drain of lines 334-335, or the break
LoopIteration(branch, it) ==
  /\ pc = "loop"
  /\ Branch(streams[cur]) = branch
  /\ out' = out \o [i \in 1..Len(it.printed) |-> <<cur, it.printed[i]>>]
  /\ IF it.consumed > 0
     THEN /\ streams' = [streams EXCEPT ![cur] =
                           [it.stream EXCEPT !.data = Drain(@, it.consumed)]]
          /\ pc' = "loop"
          /\ UNCHANGED sseIngests
     ELSE /\ streams' = [streams EXCEPT ![cur] = it.stream]
          /\ pc' = "recv"
          /\ sseIngests' = [sseIngests EXCEPT ![cur] =
                              IF EventCount(it.stream) > mark THEN @ + 1 ELSE @]
  /\ eaten' = [eaten EXCEPT ![cur] = @ \o SubSeq(it.stream.data, 1, it.consumed)]
  /\ iters' = iters + 1
  /\ alone' = [c \in Conns |->
                IF PacketKey(c, "fwd") = cur
                THEN IterateAlone(alone[c], streams[cur], it) ELSE alone[c]]
  /\ UNCHANGED <<cur, wire, sent, mark, len0, probe>>

StepParseRequest == LoopIteration("ParseRequest", ParseRequestStep(streams[cur]))
StepRequestBody == LoopIteration("RequestBody", RequestBodyStep(streams[cur]))
StepResponseHeader == LoopIteration("ResponseHeader", ResponseHeaderStep(streams[cur]))
StepSseBody == LoopIteration("SseBody", SseBodyStep(streams[cur]))
StepFramedBody == LoopIteration("FramedBody", FramedBodyStep(streams[cur]))

\* cap.next_packet() fails (end of file, capture error): the loop of line 128
\* ends, run_analysis returns and main returns after it (lines 98, 117-120)
EndOfCapture ==
  /\ pc = "recv"
  /\ pc' = "done"
  /\ UNCHANGED <<streams, cur, out, wire, sent, mark, sseIngests, eaten, iters, len0,
                 alone, probe>>

Next ==
  \/ \E c \in Conns : \E n \in 0..Len(Flatten(wire[c])) : Ingest(c, n)
  \/ StepParseRequest
  \/ StepRequestBody
  \/ StepResponseHeader
  \/ StepSseBody
  \/ StepFramedBody
  \/ EndOfCapture

Spec == Init /\ [][Next]_vars

(***************************************************************************)
(* Properties                                                              *)
(***************************************************************************)
\* the flow of connection c
ConnKey(c) == PacketKey(c, "fwd")

\* the blocks printed for flow k, in print order
PrintedFor(k) ==
  LET mine == SelectSeq(out, LAMBDA e : e[1] = k)
  IN  [i \in 1..Len(mine) |-> mine[i][2]]

\* what one ingest of all of b on a fresh flow prints
SingleChunk(b) == ProcessStream([data |-> b, current_tx |-> <<>>]).printed

\* the transaction in progress on flow k, as an Option
TxOf(table, k) == IF k \in DOMAIN table THEN table[k].current_tx ELSE <<>>

\* C1: chunking invariance.  Whatever packets the bytes captured so far on a
\* flow came in, what was printed for the flow is what one ingest of all
\* those bytes prints: the same blocks with the same contents, in order.
ChunkingInvariance ==
  \A c \in Conns :
    pc # "loop" => PrintedFor(ConnKey(c)) = SingleChunk(sent[c])

\* the byte streams that are one well-formed framed transaction
SingleFramed == {Scenario1, Scenario2, Flatten(KeepAlive(1))}

ByteIngest == \E c \in Conns : Ingest(c, 1)

\* every packet carries one byte
NextByteWise ==
  \/ ByteIngest
  \/ StepParseRequest
  \/ StepRequestBody
  \/ StepResponseHeader
  \/ StepSseBody
  \/ StepFramedBody
  \/ EndOfCapture

SpecByteWise == Init /\ [][NextByteWise]_vars

\* C2: a well-formed framed transaction delivered one byte per ingest is
\* printed exactly once, with the request body and the response body that a
\* single-chunk ingest of the same bytes prints (for boundary scenario 1 the
\* response body "ok").
ByteWiseFramed ==
  \A c \in Conns :
    (pc # "loop" /\ sent[c] \in SingleFramed) =>
      LET p   == PrintedFor(ConnKey(c))
          ref == SingleChunk(sent[c])
      IN  /\ Len(ref) = 1
          /\ Len(p) = 1
          /\ p[1].kind = "transaction"
          /\ p[1].req_body = ref[1].req_body
          /\ p[1].res_body = ref[1].res_body
          /\ sent[c] = Scenario1 => p[1].res_body = <<"o", "k">>
          /\ sent[c] = Scenario2 => p[1].req_body = <<"f", "o", "o">>

ByteWiseFramedWitness ==
  /\ pc = "recv"
  /\ sent["c1"] = Scenario2
  /\ Len(PrintedFor(ConnKey("c1"))) = 1

\* the blocks a step prints
NewBlocks == SubSeq(out', Len(out) + 1, Len(out'))

\* C3: a framed transaction is printed exactly once, in the step that sets
\* current_tx to None: a step prints a framed block for a flow exactly when
\* it clears a framed transaction of that flow, the block is that
\* transaction's, and a transaction still in progress was never printed.
FramedPrintedOnceStep ==
  \A k \in DOMAIN streams' :
    LET before == TxOf(streams, k)
        after  == TxOf(streams', k)
        blocks == SelectSeq(NewBlocks, LAMBDA e : e[1] = k /\ e[2].kind = "transaction")
    IN  /\ Len(blocks) = IF before # <<>> /\ after = <<>> THEN 1 ELSE 0
        /\ Len(blocks) = 1 =>
             /\ blocks[1][2].req_header = before[1].req_header
             /\ ~before[1].req_printed
        /\ after # <<>> => ~after[1].req_printed

FramedPrintedOnce == [][FramedPrintedOnceStep]_vars

FramedPrintedOnceWitness ==
  /\ pc = "recv"
  /\ Len(PrintedFor(ConnKey("c1"))) = 2
  /\ streams[ConnKey("c1")].current_tx = <<>>

\* the largest port and the largest address bits of the endpoints FlowKey is
\* tried on
MaxPort == 2
MaxAddrBits == 2

EndpointSet == ({4, 6} \X (1..MaxAddrBits)) \X (1..MaxPort)

\* C4: FlowKey::new gives the same key for both directions of a connection,
\* so every packet of a connection, whichever way it goes, lands in the one
\* StreamBuffer of the connection, and a request sent client to server with
\* its response sent server to client is printed as one transaction.
BothDirectionsOneFlow ==
  /\ \A s \in EndpointSet : \A d \in EndpointSet :
       FlowKey(s[1], s[2], d[1], d[2]) = FlowKey(d[1], d[2], s[1], s[2])
  /\ DOMAIN streams = {ConnKey(c) : c \in {x \in Conns : sent[x] # <<>>}}
  /\ \A c \in Conns :
       (pc # "loop" /\ sent[c] = TinyRequest \o TinyResponse) =>
         /\ Len(PrintedFor(ConnKey(c))) = 1
         /\ streams[ConnKey(c)] = NewStream

\* the response of the keep-alive script of c1 arrives in server-to-client
\* packets and joins the transaction of the request
BothDirectionsOneFlowWitness ==
  /\ pc = "recv"
  /\ wire["c1"] = <<Rev(<<"!">>)>>
  /\ sent["c1"] \o <<"!">> = Flatten(KeepAlive(1))
  /\ LET tx == streams[ConnKey("c1")].current_tx IN
       /\ tx # <<>>
       /\ tx[1].req_header # <<>>
       /\ tx[1].res_header # <<>>
       /\ tx[1].res_body_raw = <<"1">>

\* C5: the bodies never outgrow their declared lengths, so the subtractions
\* of lines 267 and 321 never underflow.
BodyWithinExpected ==
  \A k \in DOMAIN streams :
    LET tx == streams[k].current_tx IN
    tx # <<>> =>
      /\ Len(tx[1].req_body) <= tx[1].expected_req_len
      /\ ~tx[1].is_sse => Len(tx[1].res_body_raw) <= tx[1].expected_res_len

BodyWithinExpectedWitness ==
  \E k \in DOMAIN streams :
    LET tx == streams[k].current_tx IN
    /\ tx # <<>>
    /\ tx[1].state = "ResponseBody"
    /\ ~tx[1].is_sse
    /\ Len(tx[1].req_body) = 2
    /\ tx[1].expected_req_len = 2
    /\ Len(tx[1].res_body_raw) = 1
    /\ tx[1].expected_res_len = 2

Rank(state) ==
  CASE state = "RequestBody" -> 1
    [] state = "ResponseHeader" -> 2
    [] state = "ResponseBody" -> 3

\* C6: within a transaction, state never moves backwards and advances one
\* phase at a time; a new transaction starts in RequestBody exactly when it
\* expects a request body, else in ResponseHeader; is_sse starts false,
\* becomes true only in a step taken in state ResponseHeader and never
\* becomes false again.
StateForwardStep ==
  \A k \in DOMAIN streams' :
    LET before == TxOf(streams, k)
        after  == TxOf(streams', k)
    IN  /\ (before # <<>> /\ after # <<>>) =>
             /\ Rank(after[1].state) >= Rank(before[1].state)
             /\ Rank(after[1].state) <= Rank(before[1].state) + 1
             /\ before[1].is_sse => after[1].is_sse
             /\ (~before[1].is_sse /\ after[1].is_sse) =>
                  before[1].state = "ResponseHeader"
        /\ (before = <<>> /\ after # <<>>) =>
             /\ ~after[1].is_sse
             /\ after[1].state =
                  IF after[1].expected_req_len > 0 THEN "RequestBody" ELSE "ResponseHeader"

StateForward == [][StateForwardStep]_vars

StateForwardWitness ==
  \E k \in DOMAIN streams :
    LET tx == streams[k].current_tx IN
    /\ tx # <<>>
    /\ tx[1].state = "ResponseBody"
    /\ tx[1].req_body # <<>>

\* 'GET'
GetName ==
  <<"G","E","T">>
\* 'POST'
PostName ==
  <<"P","O","S","T">>
\* '  Content-Length: 2\n'
ContentLength2Line ==
  <<" "," ","C","o","n","t","e","n","t","-","L","e","n","g","t","h",":"," ","2","\n">>
\* 'OK'
OkReason ==
  <<"O","K">>
\* 'G / HTTP/1.1'
TinyRequestText ==
  <<"G"," ","/"," ","H","T","T","P","/","1",".","1">>

\* C7: once the response of a transaction is recognised as an event stream,
\* no step clears current_tx or parses another header on that flow, whatever
\* Content-Length was declared, and every ingest leaves data empty: all
\* later bytes are consumed as event payload.
SseNeverClearedStep ==
  \A k \in DOMAIN streams :
    LET before == streams[k].current_tx
        after  == streams'[k].current_tx
    IN  (before # <<>> /\ before[1].is_sse) =>
          /\ after # <<>>
          /\ after[1].is_sse
          /\ after[1].state = "ResponseBody"
          /\ after[1].req_header = before[1].req_header
          /\ after[1].res_header = before[1].res_header
          /\ after[1].expected_res_len = before[1].expected_res_len
          /\ pc' = "recv" => streams'[k].data = <<>>

SseNeverCleared == [][SseNeverClearedStep]_vars

\* the second request of the client ended up as an event of the stream that
\* declared Content-Length: 1
SseNeverClearedWitness ==
  /\ pc = "recv"
  /\ wire["c1"] = <<>>
  /\ LET tx == streams[ConnKey("c1")].current_tx IN
       /\ tx # <<>>
       /\ tx[1].is_sse
       /\ tx[1].expected_res_len = 1
       /\ tx[1].res_body_events[Len(tx[1].res_body_events)] = TinyRequestText
  /\ streams[ConnKey("c1")].data = <<>>

\* the event-stream blocks printed for flow k
SseBlocks(k) == SelectSeq(PrintedFor(k), LAMBDA b : b.kind = "sse")

\* C8: the event-stream updates printed for a flow are as many as the
\* ingests on it that appended at least one event.
SseUpdatePerIngest ==
  \A k \in DOMAIN streams :
    pc # "loop" => Len(SseBlocks(k)) = sseIngests[k]

\* two ingests appended three events, and were printed as two updates
SseUpdatePerIngestWitness ==
  \E k \in DOMAIN streams :
    /\ pc = "recv"
    /\ sseIngests[k] = 2
    /\ EventCount(streams[k]) = 3
    /\ Len(sent["c1"]) > Len(TinyRequest \o SseResponse) + 3

\* C9: when the capture has ended, every transaction still in progress with
\* a parsed request header has been printed with what it accumulated.
FlushAtEnd ==
  pc = "done" =>
    \A k \in DOMAIN streams :
      LET tx == streams[k].current_tx IN
      (tx # <<>> /\ tx[1].req_header # <<>>) =>
        \E i \in 1..Len(out) :
          /\ out[i][1] = k
          /\ out[i][2].req_header = tx[1].req_header
          /\ out[i][2].req_body = tx[1].req_body
          /\ out[i][2].res_header = tx[1].res_header

\* the block printed for the i-th transaction of a keep-alive script
KeepAliveBlock(i) ==
  LET d == Digits[i + 1] IN
  [kind |-> "transaction", count |-> 0,
   req_header |-> <<RequestBanner>>
                    \o (IF i % 2 = 1 THEN GetName ELSE PostName)
                    \o <<" ", "/", d, ResetNewline>>
                    \o (IF i % 2 = 1 THEN <<>> ELSE ContentLength2Line),
   req_body |-> IF i % 2 = 1 THEN <<>> ELSE <<d, "?">>,
   res_header |-> <<ResponseBanner, "2", "0", "0", " ">> \o OkReason
                    \o <<ResetNewline>> \o ContentLength2Line,
   res_body |-> <<d, "!">>,
   events |-> <<>>]

\* C10: when the bytes of a flow are n framed transactions back to back,
\* exactly n blocks are printed for it, in wire order, the i-th with request
\* i and response i; the bytes a completed transaction leaves in data start
\* the next one.
KeepAliveInOrder ==
  \A c \in Conns : \A n \in 1..MaxTxns :
    (pc # "loop" /\ sent[c] = Flatten(KeepAlive(n))) =>
      /\ PrintedFor(ConnKey(c)) = [i \in 1..n |-> KeepAliveBlock(i)]
      /\ streams[ConnKey(c)] = NewStream

\* a transaction was just printed and cleared, and data still holds bytes:
\* the start of the next request
KeepAliveInOrderWitness ==
  /\ pc = "loop"
  /\ streams[cur].current_tx = <<>>
  /\ Len(PrintedFor(cur)) = 1
  /\ Len(streams[cur].data) >= 2
  /\ sent["c1"] = SubSeq(Flatten(KeepAlive(2)), 1, Len(sent["c1"]))


\* C11: pipelining.  When a flow carries two framed requests back to back and
\* then their two responses (req1, req2, res1, res2), two blocks are printed
\* for it: the first with request 1 and response 1, the second with request 2
\* and response 2.
PipeliningHandled ==
  \A c \in Conns :
    (pc # "loop" /\ sent[c] = Flatten(Pipelined)) =>
      PrintedFor(ConnKey(c)) = <<KeepAliveBlock(1), KeepAliveBlock(2)>>

\* C12: when an ingest has returned, the flow is at a fixed point: one more
\* pass of the state machine with an empty payload appended consumes nothing,
\* leaves data and every field of current_tx as they are and prints nothing;
\* and an empty payload never creates a StreamBuffer, so a connection that
\* has carried no payload byte has none.
FixedPointOnReturn ==
  /\ pc # "loop" =>
       \A k \in DOMAIN streams :
         LET again == Extend(streams, k, <<>>)[k] IN
         /\ again = streams[k]
         /\ Iteration(again) = NoProgress(streams[k])
         /\ ProcessStream(again) = [stream |-> streams[k], printed |-> <<>>]
  /\ \A c \in Conns : sent[c] = <<>> => ConnKey(c) \notin DOMAIN streams

\* an ingest returned in the middle of a response header: a transaction is in
\* progress and data holds the bytes received of the header
FixedPointOnReturnWitness ==
  /\ pc = "recv"
  /\ \E k \in DOMAIN streams :
       /\ streams[k].current_tx # <<>>
       /\ streams[k].current_tx[1].state = "ResponseHeader"
       /\ Len(streams[k].data) >= 2
       /\ ResponseParse(streams[k].data).st = "Partial"

\* C13: byte conservation.  On every flow the bytes drained so far, in drain
\* order, followed by what data holds are all the payload bytes ingested on
\* the flow, in order: every drain removed a prefix of data and every ingest
\* appended to it, so data.len() is always the bytes ingested minus the bytes
\* consumed.
ByteConservation ==
  \A c \in Conns :
    LET k == ConnKey(c) IN
    k \in DOMAIN streams =>
      /\ eaten[k] \o streams[k].data = sent[c]
      /\ Len(streams[k].data) = Len(sent[c]) - Len(eaten[k])

\* a transaction was consumed and printed, and part of the next request
\* waits in data
ByteConservationWitness ==
  /\ pc = "recv"
  /\ \E k \in DOMAIN streams :
       /\ Len(PrintedFor(k)) = 1
       /\ Len(eaten[k]) > 0
       /\ Len(streams[k].data) > 2
       /\ streams[k].current_tx = <<>>

\* the value of the first header of hs named name (lower case), as an Option
FirstValue(hs, name) ==
  LET idx == {i \in 1..Len(hs) : ToLowercase(hs[i].name) = name} IN
  IF idx = {} THEN <<>>
  ELSE <<FromUtf8Lossy(hs[CHOOSE i \in idx : \A j \in idx : i <= j].value)>>

\* the length the first Content-Length header of hs declares, 0 without one
FirstLength(hs) ==
  LET v == FirstValue(hs, ContentLengthName) IN
  IF v = <<>> THEN 0 ELSE ParseUsizeOr0(v[1])

\* the first Content-Type header of hs names an event stream
FirstTypeIsSse(hs) ==
  LET v == FirstValue(hs, ContentTypeName) IN
  v # <<>> /\ Contains(v[1], TextEventStream)

\* C14: of several Content-Length (or Content-Type) headers in one header
\* block only the first counts.  For the first transaction of a flow,
\* expected_req_len is the length its request's first Content-Length header
\* declares and, once the response header is parsed, expected_res_len and
\* is_sse are those of the response's first Content-Length and first
\* Content-Type header.
FirstHeaderWins ==
  \A c \in Conns :
    LET k   == ConnKey(c)
        tx  == TxOf(streams, k)
        req == RequestParse(sent[c])
    IN  (/\ tx # <<>>
         /\ SelectSeq(PrintedFor(k), LAMBDA b : b.kind = "transaction") = <<>>
         /\ req.st = "Complete") =>
          /\ tx[1].expected_req_len = FirstLength(req.headers)
          /\ tx[1].state = "ResponseBody" =>
               LET res == ResponseParse(Drain(sent[c], req.amt + Len(tx[1].req_body)))
               IN  /\ res.st = "Complete"
                   /\ tx[1].expected_res_len = FirstLength(res.headers)
                   /\ tx[1].is_sse = FirstTypeIsSse(res.headers)

IsPrefix(p, s) == Len(p) <= Len(s) /\ SubSeq(s, 1, Len(p)) = p

\* byte streams that are one framed transaction: a response with a body, with
\* Content-Length: 0, without Content-Length and with one that does not parse
FramedExchanges ==
  {Scenario1, Scenario2, Flatten(KeepAlive(1)), TinyRequest \o TinyResponse,
   TinyRequest \o BadLengthResponse}

\* the bytes of exchange t after its request header, as many as the request
\* declares
DeclaredRequestBody(t) ==
  LET req == RequestParse(t) IN
  SubSeq(t, req.amt + 1, req.amt + FirstLength(req.headers))

\* the bytes of exchange t after its response header, as many as the response
\* declares
DeclaredResponseBody(t) ==
  LET req  == RequestParse(t)
      rest == Drain(t, req.amt + FirstLength(req.headers))
      res  == ResponseParse(rest)
  IN  SubSeq(rest, res.amt + 1, res.amt + FirstLength(res.headers))

\* C15: a framed transaction is printed and cleared in the ingest that
\* delivers its last byte, never earlier.  While a flow has received a proper
\* prefix of the exchange nothing is printed for it; when the ingest of the
\* last byte has returned, one block is printed, current_tx is None, and the
\* block's bodies are the declared number of bytes after each header.
CompletedAtLastByte ==
  \A c \in Conns : \A t \in FramedExchanges :
    LET k == ConnKey(c) IN
    IsPrefix(sent[c], t) =>
      /\ sent[c] # t => PrintedFor(k) = <<>>
      /\ (sent[c] = t /\ pc # "loop") =>
           /\ Len(PrintedFor(k)) = 1
           /\ streams[k] = NewStream
           /\ PrintedFor(k)[1].kind = "transaction"
           /\ PrintedFor(k)[1].req_body = DeclaredRequestBody(t)
           /\ PrintedFor(k)[1].res_body = DeclaredResponseBody(t)

\* the last byte of "ok" arrived in a packet of its own and the transaction
\* was printed with the request body empty and the response body "ok"
CompletedAtLastByteWitness ==
  /\ pc = "recv"
  /\ sent["c1"] = Scenario1
  /\ len0 = 1
  /\ Len(PrintedFor(ConnKey("c1"))) = 1
  /\ PrintedFor(ConnKey("c1"))[1].res_body = <<"o", "k">>
  /\ DeclaredResponseBody(Scenario1) = <<"o", "k">>
  /\ DeclaredRequestBody(Scenario2) = <<"f", "o", "o">>
  /\ DeclaredResponseBody(TinyRequest \o BadLengthResponse) = <<>>

\* the header parser reports invalid on the buffer: for a request when there
\* is no current transaction, for a response in state ResponseHeader
Invalid(stream) ==
  \/ Branch(stream) = "ParseRequest" /\ RequestParse(stream.data).st = "Error"
  \/ Branch(stream) = "ResponseHeader" /\ ResponseParse(stream.data).st = "Error"

\* C16: malformed input sticks the flow without side effects.  When the
\* header parser reports invalid on a flow's buffer, the iteration of the
\* loop on it consumes 0 bytes, changes nothing and ends the ingest, and in
\* every later step the flow stays invalid: current_tx and its fields are
\* unchanged, data only grows at its end, and nothing is printed for it.
StuckWhenInvalidStep ==
  \A k \in DOMAIN streams :
    Invalid(streams[k]) =>
      /\ Invalid(streams'[k])
      /\ streams'[k].current_tx = streams[k].current_tx
      /\ IsPrefix(streams[k].data, streams'[k].data)
      /\ SelectSeq(NewBlocks, LAMBDA e : e[1] = k) = <<>>
      /\ (pc = "loop" /\ cur = k) =>
           /\ streams'[k] = streams[k]
           /\ eaten'[k] = eaten[k]
           /\ pc' = "recv"

StuckWhenInvalid == [][StuckWhenInvalidStep]_vars

\* the pipelined flow after its last packet: the response parser rejected
\* the bytes of the second request when they arrived, the transaction of the
\* first request is still waiting for its response header, and data holds
\* everything received since
StuckWhenInvalidWitness ==
  /\ pc = "recv"
  /\ sent["c1"] = Flatten(Pipelined)
  /\ LET s == streams[ConnKey("c1")] IN
       /\ Invalid(s)
       /\ s.current_tx # <<>>
       /\ s.current_tx[1].state = "ResponseHeader"
       /\ s.data = Drain(sent["c1"], Len(RequestOf(1)))
  /\ PrintedFor(ConnKey("c1")) = <<>>

BlankLine == <<"\n", "\n">>

\* the pieces of a split put together again, the separator between them
RECURSIVE JoinBlankLine(_)
JoinBlankLine(pieces) ==
  IF Len(pieces) = 1 THEN pieces[1]
  ELSE pieces[1] \o BlankLine \o JoinBlankLine(Tail(pieces))

\* a trimmed entry of res_body_events: not empty, no white space at either
\* end, no separator inside
WellFormedEvent(e) ==
  /\ e # <<>>
  /\ ~IsWhitespace(e[1])
  /\ ~IsWhitespace(e[Len(e)])
  /\ ~Contains(e, BlankLine)

\* C17: the body of an event stream.  An iteration taken in state
\* ResponseBody with is_sse true consumes all of data and appends to
\* res_body_events, in order, the trimmed non-empty pieces of the buffered
\* text split on "\n\n" (pieces that put together give the text back);
\* data is empty when the ingest returns; res_body_events only grows at its
\* end and never holds an empty or untrimmed entry.
SseEventsAppendedStep ==
  /\ \A k \in DOMAIN streams :
       LET before == streams[k].current_tx
           after  == streams'[k].current_tx
       IN  (before # <<>> /\ before[1].is_sse) =>
             /\ after # <<>>
             /\ IsPrefix(before[1].res_body_events, after[1].res_body_events)
             /\ \A i \in 1..Len(after[1].res_body_events) :
                  WellFormedEvent(after[1].res_body_events[i])
             /\ pc' = "recv" => streams'[k].data = <<>>
  /\ (pc = "loop" /\ Branch(streams[cur]) = "SseBody") =>
       LET text   == FromUtf8Lossy(streams[cur].data)
           pieces == SplitBlankLine(text)
       IN  /\ JoinBlankLine(pieces) = text
           /\ streams'[cur].data = <<>>
           /\ streams'[cur].current_tx[1].res_body_events =
                streams[cur].current_tx[1].res_body_events
                  \o [i \in 1..Len(NewEvents(pieces, 1)) |-> Trim(NewEvents(pieces, 1)[i])]
           /\ Len(NewEvents(pieces, 1)) =
                Cardinality({i \in 1..Len(pieces) : Trim(pieces[i]) # <<>>})

SseEventsAppended == [][SseEventsAppendedStep]_vars

\* the bytes 'a\n\nb \n\n' and an invalid byte came in one packet and gave
\* the events "a", "b" and the replacement character
SseEventsAppendedWitness ==
  /\ pc = "recv"
  /\ len0 = Len(SseEvents) + 1
  /\ sent["c1"] = TinyRequest \o SseResponse \o SseEvents \o <<ByteFF>>
  /\ streams[ConnKey("c1")].data = <<>>
  /\ streams[ConnKey("c1")].current_tx[1].res_body_events =
       << <<"a">>, <<"b">>, <<ReplacementChar>> >>

\* an iteration removes at least one byte from the front of data and the loop
\* goes on, or it leaves data alone and the loop exits; either way it counts
IterationProgressStep ==
  pc = "loop" =>
    LET before == streams[cur].data
        after  == streams'[cur].data
    IN  /\ iters' = iters + 1
        /\ \/ /\ pc' = "loop"
              /\ Len(after) < Len(before)
              /\ after = Drain(before, Len(before) - Len(after))
           \/ /\ pc' = "recv"
              /\ after = before

\* inside process_stream there is always an iteration to take, and the
\* iterations of the call so far are within data.len() + 1, data.len()
\* taken at the call
IterationsBounded ==
  pc = "loop" =>
    /\ cur \in DOMAIN streams
    /\ Branch(streams[cur]) \in
         {"ParseRequest", "RequestBody", "ResponseHeader", "SseBody", "FramedBody"}
    /\ iters <= len0
    /\ iters + Len(streams[cur].data) <= len0

\* C18: process_stream terminates on every buffer and transaction state it
\* is called on.  Every iteration of its loop either removes at least one
\* byte from the front of data or consumes nothing and exits, so the
\* iterations of one call are at most data.len() + 1.
ProcessStreamTerminates ==
  /\ [][IterationProgressStep]_vars
  /\ [](IterationsBounded /\ iters <= len0 + 1)

\* a call that returned after 3 iterations: the response header, the
\* response body, and the iteration that consumed 0
ProcessStreamTerminatesWitness ==
  /\ pc = "recv"
  /\ iters = 3
  /\ len0 > 3
  /\ Len(PrintedFor(cur)) = 1
  /\ streams[cur] = NewStream

\* a step touches only the flow process_stream was called on: the buffer and
\* the transaction of every other flow stay as they are, nothing is drained
\* from them and nothing is printed for them
OtherFlowsUntouchedStep ==
  \A k \in DOMAIN streams :
    k # cur' =>
      /\ streams'[k] = streams[k]
      /\ eaten'[k] = eaten[k]
      /\ SelectSeq(NewBlocks, LAMBDA e : e[1] = k) = <<>>

\* between its own ingests, a flow's buffer, transaction and output are
\* those of the run in which its packets are the only ones of the capture
SameAsAlone ==
  \A c \in Conns :
    LET k == ConnKey(c) IN
    (pc # "loop" \/ cur # k) =>
      /\ PrintedFor(k) = alone[c].printed
      /\ IF k \in DOMAIN streams THEN streams[k] = alone[c].stream
         ELSE alone[c].stream = NewStream

\* C19: flow isolation.  An ingest on a flow changes only the StreamBuffer
\* of that flow, and under any interleaving of the packets of several flows
\* what is printed for each flow is what its packets print when ingested
\* alone in the same order.
FlowIsolation ==
  /\ [][OtherFlowsUntouchedStep]_vars
  /\ []SameAsAlone

\* the packets of two connections were interleaved: the transaction of c2
\* was printed while c1 was in the middle of its response header, and the
\* transaction of c1 after it
FlowIsolationWitness ==
  /\ pc = "recv"
  /\ Len(out) = 2
  /\ out[1][1] = ConnKey("c2")
  /\ out[2][1] = ConnKey("c1")
  /\ ConnKey("c1") # ConnKey("c2")
  /\ Len(eaten[ConnKey("c1")]) = Len(TinyRequest \o TinyResponse)
  /\ Len(eaten[ConnKey("c2")]) = Len(RequestOf(1) \o TinyResponse)

\* FlowKey::new on its own: no capture, two packets' endpoint pairs drawn
\* from EndpointSet and the keys computed for them
InitFlowKey ==
  /\ streams = NoStreams
  /\ pc = "done"
  /\ cur = PacketKey("c1", "fwd")
  /\ out = <<>>
  /\ wire = [c \in Conns |-> <<>>]
  /\ sent = [c \in Conns |-> <<>>]
  /\ mark = 0
  /\ sseIngests = NoStreams
  /\ eaten = NoStreams
  /\ iters = 0
  /\ len0 = 0
  /\ alone = [c \in Conns |-> [stream |-> NewStream, printed |-> <<>>]]
  /\ probe = <<>>

\* the key of a packet from src to dst, as line 142 computes it
KeyOf(src, dst) ==
  [src |-> src, dst |-> dst, key |-> FlowKey(src[1], src[2], dst[1], dst[2])]

NewFlowKeys ==
  /\ probe = <<>>
  /\ \E s1 \in EndpointSet, d1 \in EndpointSet, s2 \in EndpointSet, d2 \in EndpointSet :
       probe' = <<KeyOf(s1, d1), KeyOf(s2, d2)>>
  /\ UNCHANGED <<streams, pc, cur, out, wire, sent, mark, sseIngests, eaten, iters,
                 len0, alone>>

SpecFlowKey == InitFlowKey /\ [][NewFlowKeys]_vars

\* (a, pa) <= (b, pb) in the lexicographic order on (address, port)
EndpointLeq(a, pa, b, pb) ==
  \/ a[1] < b[1]
  \/ a[1] = b[1] /\ a[2] < b[2]
  \/ a = b /\ pa <= pb

\* C20: FlowKey never merges distinct connections.  Two packets get equal
\* keys only if their unordered endpoint pairs are the same; every key holds
\* the two endpoints of its packet, with (addr_a, port_a) <= (addr_b, port_b).
FlowKeySeparates ==
  probe # <<>> =>
    /\ probe[1].key = probe[2].key =>
         {probe[1].src, probe[1].dst} = {probe[2].src, probe[2].dst}
    /\ \A i \in 1..2 :
         LET key == probe[i].key IN
         /\ {<<key.addr_a, key.port_a>>, <<key.addr_b, key.port_b>>}
              = {probe[i].src, probe[i].dst}
         /\ EndpointLeq(key.addr_a, key.port_a, key.addr_b, key.port_b)

\* two connections between the same two hosts with the ports swapped get
\* different keys, each one in canonical order
FlowKeySeparatesWitness ==
  /\ probe # <<>>
  /\ probe[1].src = <<HostA, 1>> /\ probe[1].dst = <<HostB, 2>>
  /\ probe[2].src = <<HostB, 1>> /\ probe[2].dst = <<HostA, 2>>
  /\ probe[1].key # probe[2].key
  /\ probe[2].key.addr_a = HostA

=============================================================================
